---- MODULE Spec2Model ----
(***************************************************************************)
(* A model of brdecode (src/brdecode.cc): the driver loop of main, the     *)
(* PCL wrapper parser read_page, the block framing closure                 *)
(* get_next_block_character and the delta decoder read_block / read_line / *)
(* read_edit / read_repeat / read_substitute / read_overflow.              *)
(*                                                                         *)
(* The input file is a finite byte sequence fixed in the initial state;    *)
(* the program is sequential, so pc names the statement it stands at.      *)
(***************************************************************************)
EXTENDS Integers, Sequences, FiniteSets, TLC

\* ------------------------------------------------------------------------
\* Program constants
\* ------------------------------------------------------------------------

MAX_LINE_SIZE == 2000

FormFeed == 12

ESC == 27

Star == 42

LowerB == 98

Char0 == 48

Char9 == 57

LowerM == 109

UpperM == 77

LowerW == 119

UpperW == 87

Backtick == 96

Tilde == 126

AtSign == 64

Caret == 94

FORMAT_1030 == 1030

ClearLine == 255

\* uint16_t is 16 bits wide.  The unsigned (32-bit) locals number, sum and
\* count stay below 2^31 on every input of the family (TLC's integers are
\* 32-bit and it stops on overflow), so their wrap-around is not modelled.
Pow16 == 65536

\* ------------------------------------------------------------------------
\* Bounds of the input family
\* ------------------------------------------------------------------------

\* tokens per wrapper-level input stream
MaxTokens == 3

\* encoded lines per generated block
MaxBlockLines == 2

\* the longest run of 0xFF bytes handed to read_overflow on its own
MaxFF == 3

\* ------------------------------------------------------------------------
\* Helpers
\* ------------------------------------------------------------------------

\* F applied to the value of v, v being evaluated once
Bind(v, F(_)) == CHOOSE res \in {F(y) : y \in {v}} : TRUE

RECURSIVE Concat(_)
Concat(ss) ==
    IF ss = <<>> THEN <<>>
    ELSE Bind(Tail(ss), LAMBDA rest : Head(ss) \o Concat(rest))

Rep(b, n) == [i \in 1..n |-> b]

SeqsUpTo(S, n) == UNION {[1..k -> S] : k \in 0..n}

Prefixes(s) == {SubSeq(s, 1, k) : k \in 0..Len(s)}

Max(a, b) == IF a >= b THEN a ELSE b

RECURSIVE Dec(_)
\* the ASCII decimal digits of n, as they stand in a print file
Dec(n) ==
    IF n < 10 THEN <<Char0 + n>> ELSE Dec(n \div 10) \o <<Char0 + (n % 10)>>

\* ------------------------------------------------------------------------
\* State
\* ------------------------------------------------------------------------

VARIABLES
    input,        \* the bytes of in_file
    pos,          \* number of bytes of in_file consumed so far
    pc,           \* the statement the program stands at
    page,         \* global page: the scan lines of the page being decoded
    line,         \* global line: the previous-line buffer
    line_offset,  \* global line_offset: the write cursor
    in_raster,    \* read_page local
    number,       \* read_page local (unsigned)
    format,       \* read_page local (int)
    ch,           \* read_page local: the byte the wrapper loop is handling
    lines_left,   \* read_block: count - i
    edits_left,   \* read_line: num_edits - i
    page_num,     \* main local
    pages_out,    \* the .pbm files written so far, in order
    warnings,     \* the unread-byte counts warned about, in order
    err,          \* the exception in flight or caught ("none" if none)
    err_arg,      \* the format carried by unsupported_compression
    exit_status,  \* main's return value (-1 while running)
    hist          \* history of the current call, block, line and edit

vars ==
    <<input, pos, pc, page, line, line_offset, in_raster, number, format, ch,
      lines_left, edits_left, page_num, pages_out, warnings, err, err_arg,
      exit_status, hist>>

\* ------------------------------------------------------------------------
\* Byte sources
\* ------------------------------------------------------------------------

\* A reader is the part of the state a byte read touches:
\*   pos, number (the block counter), err, byte (the byte just returned).
Reader(p, n) == [pos |-> p, number |-> n, err |-> "none", byte |-> 0]

\* get() without its end-of-file test: getc's -1 is returned as 255
GetNoThrow(r) ==
    IF r.err # "none" THEN r
    ELSE IF r.pos >= Len(input) THEN [r EXCEPT !.byte = 255]
    ELSE [r EXCEPT !.pos = @ + 1, !.byte = input[r.pos + 1]]

\* get(): getc, unexpected_eof at end of file
Get(r) ==
    IF r.err # "none" THEN r
    ELSE IF r.pos >= Len(input) THEN [r EXCEPT !.err = "unexpected_eof"]
    ELSE [r EXCEPT !.pos = @ + 1, !.byte = input[r.pos + 1]]

\* get_next_block_character without its counter test
NextCharUnchecked(r) ==
    IF r.err # "none" THEN r
    ELSE Get([r EXCEPT !.number = @ - 1])

\* the closure get_next_block_character of read_page
NextChar(r) ==
    IF r.err # "none" THEN r
    ELSE IF r.number <= 0 THEN [r EXCEPT !.err = "read_past_block_end"]
    ELSE Get([r EXCEPT !.number = @ - 1])

\* ------------------------------------------------------------------------
\* The delta decoder
\* ------------------------------------------------------------------------

\* a pass that leaves the byte ending the run out of the sum
OverflowPassNoLast(lp) ==
    IF lp.done THEN lp
    ELSE Bind(NextChar(lp.r), LAMBDA r1 :
           IF r1.err # "none" THEN [r |-> r1, sum |-> lp.sum, done |-> TRUE]
           ELSE [r |-> r1,
                 sum |-> IF r1.byte = 255 THEN lp.sum + r1.byte ELSE lp.sum,
                 done |-> r1.byte # 255])

\* one pass of the do-while of read_overflow (lines 82-84); lp holds the
\* reader, the sum so far and whether the loop has been left
OverflowPass(lp) ==
    IF lp.done THEN lp
    ELSE Bind(NextChar(lp.r), LAMBDA r1 :
           IF r1.err # "none" THEN [r |-> r1, sum |-> lp.sum, done |-> TRUE]
           ELSE [r |-> r1, sum |-> lp.sum + r1.byte, done |-> r1.byte # 255])

RECURSIVE OverflowLoop(_, _)
\* at most n passes of the do-while, the run halved so that the evaluation
\* nests to depth log n
OverflowLoop(lp, n) ==
    IF lp.done \/ n = 0 THEN lp
    ELSE IF n = 1 THEN OverflowPass(lp)
    ELSE Bind(OverflowLoop(lp, n \div 2), LAMBDA mid :
           OverflowLoop(mid, n - (n \div 2)))

\* read_overflow(next_character): every pass but a throwing one takes one
\* byte of the block, so number + 1 passes are never exceeded
ReadOverflow(r) ==
    Bind(OverflowLoop([r |-> r, sum |-> 0, done |-> FALSE], r.number + 1),
         LAMBDA lp : [r |-> lp.r, sum |-> lp.sum])

\* a field of cmd, extended by read_overflow when it holds its maximum;
\* the sum is stored back into a uint16_t
Field(r, small, maxv) ==
    IF small = maxv /\ r.err = "none"
    THEN Bind(ReadOverflow(r), LAMBDA ov :
           [r |-> ov.r, val |-> (small + ov.sum) % Pow16])
    ELSE [r |-> r, val |-> small]

Zeros(n) == [i \in 1..n |-> 0]

\* std::vector::resize
Resize(ln, n) ==
    IF n >= Len(ln) THEN ln \o Zeros(n - Len(ln)) ELSE SubSeq(ln, 1, n)

\* fill_n started one position early
FillNEarly(ln, at, cnt, data) ==
    [i \in 1..Len(ln) |-> IF at <= i /\ i <= at + cnt THEN data ELSE ln[i]]

\* std::fill_n(line.begin() + at, cnt, data)
FillN(ln, at, cnt, data) ==
    [i \in 1..Len(ln) |-> IF at < i /\ i <= at + cnt THEN data ELSE ln[i]]

RECURSIVE GenerateNInPlace(_)
\* generate_n whose output iterator never advances
GenerateNInPlace(g) ==
    IF g.cnt = 0 \/ g.r.err # "none" THEN g
    ELSE Bind(NextChar(g.r), LAMBDA r1 :
           IF r1.err # "none" THEN [g EXCEPT !.r = r1]
           ELSE Bind([r |-> r1, line |-> [g.line EXCEPT ![g.at + 1] = r1.byte],
                      at |-> g.at, cnt |-> g.cnt - 1],
                     LAMBDA g1 : GenerateNInPlace(g1)))

RECURSIVE GenerateN(_)
\* std::generate_n(line.begin() + at, cnt, next_character), on
\* g = [r, line, at, cnt]
GenerateN(g) ==
    IF g.cnt = 0 \/ g.r.err # "none" THEN g
    ELSE Bind(NextChar(g.r), LAMBDA r1 :
           IF r1.err # "none" THEN [g EXCEPT !.r = r1]
           ELSE Bind([r |-> r1, line |-> [g.line EXCEPT ![g.at + 1] = r1.byte],
                      at |-> g.at + 1, cnt |-> g.cnt - 1],
                     LAMBDA g1 : GenerateN(g1)))

\* the bounds check with >= MAX_LINE_SIZE + 1 mistaken for > MAX_LINE_SIZE + 1
GrowLoose(ln, end) ==
    IF end > Len(ln)
    THEN IF end > MAX_LINE_SIZE + 1 THEN [overflow |-> TRUE, line |-> ln]
         ELSE [overflow |-> FALSE, line |-> Resize(ln, end)]
    ELSE [overflow |-> FALSE, line |-> ln]

\* the bounds check and growth shared by both edit kinds (lines 98-103 and
\* 118-123): "overflow" when the exception is thrown
Grow(ln, end) ==
    IF end > Len(ln)
    THEN IF end > MAX_LINE_SIZE THEN [overflow |-> TRUE, line |-> ln]
         ELSE [overflow |-> FALSE, line |-> Resize(ln, end)]
    ELSE [overflow |-> FALSE, line |-> ln]

\* what an edit returns: the reader, the buffer, the cursor, and the
\* decoded fields (decoded: "no" when a read of cmd or of a field threw,
\* "fields" when both fields were read but the bounds check was not
\* reached, "full" when the bounds check was reached)
EditResult(kind, r, ln, lo, offset, count, decoded) ==
    [kind |-> kind, r |-> r, line |-> ln, line_offset |-> lo,
     offset |-> offset, count |-> count, decoded |-> decoded]

\* lines 98-106 of read_repeat, the fields and the data byte being read
RepeatEffect(r3, ln, lo, offset, count) ==
    Bind(Grow(ln, lo + offset + count), LAMBDA g :
      IF r3.err # "none"
      THEN EditResult("repeat", r3, ln, lo, offset, count, "fields")
      ELSE IF g.overflow
      THEN EditResult("repeat", [r3 EXCEPT !.err = "line_overflow"], ln, lo,
                      offset, count, "full")
      ELSE EditResult("repeat", r3,
                      FillN(g.line, lo + offset, count, r3.byte),
                      lo + offset + count, offset, count, "full"))

\* read_repeat(cmd, next_character) on buffer ln with cursor lo
ReadRepeat(cmd, r, ln, lo) ==
    Bind(Field(r, (cmd \div 32) % 4, 3), LAMBDA f1 :
      Bind(Field(f1.r, cmd % 32, 31), LAMBDA f2 :
        IF f2.r.err # "none"
        THEN EditResult("repeat", f2.r, ln, lo, f1.val, f2.val, "no")
        ELSE Bind(NextChar(f2.r), LAMBDA r3 :
               RepeatEffect(r3, ln, lo, f1.val, (f2.val + 2) % Pow16))))

\* lines 118-126 of read_substitute, the fields being read
SubstituteEffect(r2, ln, lo, offset, count) ==
    Bind(Grow(ln, lo + offset + count), LAMBDA g :
      IF r2.err # "none"
      THEN EditResult("substitute", r2, ln, lo, offset, count, "no")
      ELSE IF g.overflow
      THEN EditResult("substitute", [r2 EXCEPT !.err = "line_overflow"], ln,
                      lo, offset, count, "full")
      ELSE Bind(GenerateN([r |-> r2, line |-> g.line, at |-> lo + offset,
                           cnt |-> count]),
                LAMBDA gen :
                  EditResult("substitute", gen.r, gen.line,
                             IF gen.r.err = "none" THEN lo + offset + count
                             ELSE lo + offset,
                             offset, count, "full")))

\* read_substitute(cmd, next_character) on buffer ln with cursor lo
ReadSubstitute(cmd, r, ln, lo) ==
    Bind(Field(r, (cmd \div 8) % 16, 15), LAMBDA f1 :
      Bind(Field(f1.r, cmd % 8, 7), LAMBDA f2 :
        SubstituteEffect(f2.r, ln, lo, f1.val, (f2.val + 1) % Pow16)))

\* read_edit(next_character): cmd is read into an int8_t, negative when
\* its top bit is set
ReadEdit(r, ln, lo) ==
    Bind(NextChar(r), LAMBDA r1 :
      IF r1.err # "none" THEN EditResult("none", r1, ln, lo, 0, 0, "no")
      ELSE IF r1.byte >= 128 THEN ReadRepeat(r1.byte, r1, ln, lo)
      ELSE ReadSubstitute(r1.byte, r1, ln, lo))

RECURSIVE MaxWidth(_)
\* write_pnm, lines 220-223: the longest line of the page
MaxWidth(pg) ==
    IF pg = <<>> THEN 0
    ELSE Bind(Tail(pg), LAMBDA rest : Max(Len(Head(pg)), MaxWidth(rest)))

\* write_pnm: the header fields and the rows, each padded to the width
WritePnm(pg) ==
    Bind(MaxWidth(pg), LAMBDA width :
      [width  |-> width * 8,
       height |-> Len(pg),
       rows   |-> [i \in 1..Len(pg) |-> pg[i] \o Zeros(width - Len(pg[i]))]])

\* ------------------------------------------------------------------------
\* The decoder's steps, as functions of the decoder state
\*   d = [r, line, line_offset, page, lines_left, edits_left, pc]
\* ------------------------------------------------------------------------

\* where control goes after a step that may have thrown
Thrown(r, next) == IF r.err # "none" THEN "catch" ELSE next

\* the line loop started at 1 instead of 0
BlockHeaderFromOne(d) ==
    Bind(NextChar(d.r), LAMBDA r1 :
      Bind(NextChar(r1), LAMBDA r2 :
        [d EXCEPT !.r = r2,
                  !.lines_left = IF r2.err = "none"
                                 THEN Max(r1.byte * 256 + r2.byte - 1, 0)
                                 ELSE @,
                  !.pc = Thrown(r2, "line")]))

\* read_block, lines 152-153: the 16-bit line count
BlockHeader(d) ==
    Bind(NextChar(d.r), LAMBDA r1 :
      Bind(NextChar(r1), LAMBDA r2 :
        [d EXCEPT !.r = r2,
                  !.lines_left = IF r2.err = "none"
                                 THEN r1.byte * 256 + r2.byte ELSE @,
                  !.pc = Thrown(r2, "line")]))

\* read_line without line_offset = 0: the cursor stays where the line
\* before left it
LineHeaderNoReset(d) ==
    Bind(NextChar(d.r), LAMBDA r1 :
      IF r1.err # "none" THEN [d EXCEPT !.r = r1, !.pc = "catch"]
      ELSE IF r1.byte = ClearLine
      THEN [d EXCEPT !.r = r1, !.line = <<>>,
                     !.page = Append(@, <<>>),
                     !.lines_left = @ - 1]
      ELSE [d EXCEPT !.r = r1, !.edits_left = r1.byte, !.pc = "edit"])

\* read_line without line.clear(): the mark appends the buffer as it stands
LineHeaderKeep(d) ==
    Bind(NextChar(d.r), LAMBDA r1 :
      IF r1.err # "none" THEN [d EXCEPT !.r = r1, !.pc = "catch"]
      ELSE IF r1.byte = ClearLine
      THEN [d EXCEPT !.r = r1, !.page = Append(@, d.line),
                     !.lines_left = @ - 1]
      ELSE [d EXCEPT !.r = r1, !.line_offset = 0,
                     !.edits_left = r1.byte, !.pc = "edit"])

\* read_line, lines 139-143 (and 148 for the clear-line mark)
LineHeader(d) ==
    Bind(NextChar(d.r), LAMBDA r1 :
      IF r1.err # "none" THEN [d EXCEPT !.r = r1, !.pc = "catch"]
      ELSE IF r1.byte = ClearLine
      THEN [d EXCEPT !.r = r1, !.line = <<>>,
                     !.page = Append(@, <<>>),
                     !.lines_left = @ - 1]
      ELSE [d EXCEPT !.r = r1, !.line_offset = 0,
                     !.edits_left = r1.byte, !.pc = "edit"])

\* read_line, lines 144-146: one pass of the edit loop
EditStep(d) ==
    Bind(ReadEdit(d.r, d.line, d.line_offset), LAMBDA e :
      [d EXCEPT !.r = e.r, !.line = e.line, !.line_offset = e.line_offset,
                !.edits_left = IF e.r.err = "none" THEN @ - 1 ELSE @,
                !.pc = Thrown(e.r, "edit")])

\* read_line, line 148, and the loop step of read_block
LineEnd(d) ==
    [d EXCEPT !.page = Append(@, d.line), !.lines_left = @ - 1, !.pc = "line"]

\* read_block returns to read_page, line 199
BlockEnd(d) == [d EXCEPT !.pc = "drain"]

DecoderStep(d) ==
    CASE d.pc = "block" -> BlockHeader(d)
      [] d.pc = "line" /\ d.lines_left > 0 -> LineHeader(d)
      [] d.pc = "line" /\ d.lines_left = 0 -> BlockEnd(d)
      [] d.pc = "edit" /\ d.edits_left > 0 -> EditStep(d)
      [] d.pc = "edit" /\ d.edits_left = 0 -> LineEnd(d)
      [] OTHER -> d

RECURSIVE RunBlock(_)
\* read_block(get_next_block_character) run to its return or its throw
RunBlock(d) ==
    IF d.pc \in {"block", "line", "edit"}
    THEN Bind(DecoderStep(d), LAMBDA d1 : RunBlock(d1))
    ELSE d

\* ------------------------------------------------------------------------
\* The wrapper parser's pieces
\* ------------------------------------------------------------------------

\* the format test letting an unset format through
SupportedOrUnset(fmt) == fmt = FORMAT_1030 \/ fmt = 0

\* no format test at all
SupportedAny(fmt) == TRUE

\* line 194: the only compression read_page decodes
Supported(fmt) == fmt = FORMAT_1030

\* lines 206-212 without number = 0 for a parameter character
AfterLetterKeep(c, n, ir) ==
    IF c >= AtSign /\ c <= Caret THEN [number |-> n, in_raster |-> FALSE]
    ELSE [number |-> n, in_raster |-> ir]

\* lines 206-212: parameter character / terminating character
AfterLetter(c, n, ir) ==
    IF c >= Backtick /\ c <= Tilde THEN [number |-> 0, in_raster |-> ir]
    ELSE IF c >= AtSign /\ c <= Caret THEN [number |-> n, in_raster |-> FALSE]
    ELSE [number |-> n, in_raster |-> ir]

\* the drain forgetting the bytes instead of reading them
DrainForget(r) == [r EXCEPT !.number = 0]

RECURSIVE DrainLoop(_)
\* lines 201-203: for (; number > 0; number--) get();
DrainLoop(r) ==
    IF r.number <= 0 THEN r
    ELSE Bind(Get(r), LAMBDA r1 :
           IF r1.err # "none" THEN r1
           ELSE Bind([r1 EXCEPT !.number = @ - 1], LAMBDA r2 : DrainLoop(r2)))

\* the value of an uninitialised unsigned local
Indeterminate == {0, 2147483647}

\* ------------------------------------------------------------------------
\* The input family
\* ------------------------------------------------------------------------

\* ESC * b
Intro == <<ESC, Star, LowerB>>

\* 1030m
SelectFormat == Dec(FORMAT_1030) \o <<LowerM>>

\* a block: the declared count, the letter and the bytes that follow
Block(n, letter, bytes) == Dec(n) \o <<letter>> \o bytes

\* a block's payload: the 16-bit line count and the encoded lines
Payload(lines) ==
    <<Len(lines) \div 256, Len(lines) % 256>> \o Concat(lines)

\* encoded lines
LnClear     == <<255>>
LnCopy      == <<0>>
LnSub       == <<1, 0, 165>>
LnRep       == <<1, 130, 255>>
LnRepSkip   == <<1, 192, 170>>
LnSubSkip   == <<1, 33, 187, 204>>
LnTwo       == <<2, 1, 17, 34, 160, 51>>
LnRepExt    == <<1, 159, 255, 3, 7>>
LnFull      == <<1, 224>> \o Rep(255, 7) \o <<210, 85>>
LnOver      == <<1, 224>> \o Rep(255, 7) \o <<211, 85>>
LnSubOver   == <<1, 127>> \o Rep(255, 7) \o <<200, 10, 1, 2>>
LnWrap      == <<1, 224>> \o Rep(255, 257) \o <<0, 85>>

LineEncodings ==
    {LnClear, LnCopy, LnSub, LnRep, LnRepSkip, LnSubSkip, LnTwo, LnRepExt,
     LnFull, LnOver, LnSubOver, LnWrap}

\* one raster job whose block declares short bytes fewer than its payload
Job(lines, short, letter) ==
    Intro \o SelectFormat
          \o Block(Len(Payload(lines)) - short, letter, Payload(lines))

\* decoder inputs: every block of at most MaxBlockLines encoded lines,
\* declared exactly, one byte short and one byte long, then a form-feed
DecoderInputs ==
    {Job(lines, short, LowerW) \o <<FormFeed>> :
        lines \in SeqsUpTo(LineEncodings, MaxBlockLines), short \in {-1, 0, 1}}

\* wrapper-level tokens
OneLine == Payload(<<LnSub>>)

WrapTokens ==
    {<<FormFeed>>,
     Intro,
     SelectFormat,
     Block(Len(OneLine), LowerW, OneLine),
     Job(<<LnRep>>, 0, UpperW),
     <<ESC, FormFeed, ESC>>,
     <<72>>}

WrapperInputs == {Concat(ts) : ts \in SeqsUpTo(WrapTokens, MaxTokens)}

\* ESC * b 0 W 00 00 FF: a block of count 0 with no format selected
Scenario2 == Intro \o <<Char0, UpperW, 0, 0, FormFeed>>

\* the scenarios of the specification and a few more whole files
ScenarioInputs ==
    {<<72, 105, FormFeed>>,
     Scenario2,
     Intro \o <<Char0 + 2, LowerM>> \o Block(5, LowerW, OneLine),
     Intro \o Dec(FORMAT_1030) \o <<UpperM>> \o Block(5, LowerW, OneLine),
     Intro \o <<ESC, Char0 + 1, LowerW>> \o SelectFormat
           \o Block(5, LowerW, OneLine),
     Job(<<LnSub>>, 0, LowerW) \o Block(8, UpperW, Payload(<<LnTwo>>))
           \o <<FormFeed>> \o Job(<<LnCopy>>, 0, UpperW),
     Job(<<LnRep>>, 0, UpperW) \o <<FormFeed>> \o Intro
           \o Block(5, LowerW, OneLine),
     Job(<<LnSub, LnClear, LnRepSkip>>, 0, UpperW) \o <<FormFeed>>,
     Job(<<LnRep>>, 0, UpperW) \o <<FormFeed>>
           \o Job(<<LnSub, LnOver>>, 0, UpperW),
     Intro \o <<Char0 + 1, Char0, ESC, Char0 + 3, LowerM>> \o <<Char0 + 3, Char0, LowerM>>
           \o Block(5, UpperW, OneLine) \o <<FormFeed>>,
     Job(<<LnSub>>, 0, LowerW)
           \o Block(9, UpperW, Payload(<<LnTwo>>) \o LnClear)
           \o <<FormFeed>>,
     Job(<<LnRep>>, 0, UpperW) \o <<FormFeed>>
           \o Job(<<LnRepSkip>>, 0, LowerW)
           \o Block(3, UpperW, Payload(<<LnCopy>>)) \o <<FormFeed>>}

\* end of file at every point of a file that exercises every read
EofBase ==
    Job(<<LnTwo, LnSub>>, -2, LowerW) \o <<0, 0, FormFeed, ESC, 72, 72>>
        \o Job(<<LnRepExt>>, 0, UpperW)

Inputs ==
    DecoderInputs \cup WrapperInputs \cup ScenarioInputs \cup Prefixes(EofBase)

\* ------------------------------------------------------------------------
\* Initial state: main before its first call of read_page
\* ------------------------------------------------------------------------

NoEdit ==
    [kind |-> "none", cursor |-> 0, offset |-> 0, count |-> 0,
     before |-> <<>>, from |-> 0, decoded |-> "no"]

\* the state an action starts from, kept for the next state to look back on
Pre ==
    [pos |-> pos, number |-> number, page |-> page, line |-> line,
     line_offset |-> line_offset, in_raster |-> in_raster, format |-> format,
     pc |-> pc, lines_left |-> lines_left, edits_left |-> edits_left,
     pages |-> Len(pages_out), warnings |-> Len(warnings)]

\* line 206: the bytes that are parameter characters
IsParamChar(c) == c >= Backtick /\ c <= Tilde

\* history: the last action and the state before it; where and how often
\* the end of the file was met; the block, the line and the edit under way;
\* the sum returned by read_overflow run on its own (ov); where the current
\* call of read_page began (call_pos) and the line counts its blocks have
\* declared (declared); the value of the last m/M of the file (sel); the
\* digits handled since the last ESC * b or parameter character (digits)
\* and those an m/M or w/W found (used)
HistInit ==
    [last   |-> "start",
     pre    |-> [pos |-> 0, number |-> 0, page |-> <<>>, line |-> <<>>,
                 line_offset |-> 0, in_raster |-> FALSE, format |-> 0,
                 pc |-> "main", lines_left |-> 0, edits_left |-> 0,
                 pages |-> 0, warnings |-> 0],
     eof_at |-> "none",
     eofs   |-> 0,
     at_eof |-> [page |-> <<>>, pages |-> <<>>],
     calls  |-> 0,
     blk    |-> [start |-> 0, n |-> 0, line |-> <<>>, line_offset |-> 0,
                 page |-> <<>>],
     ln     |-> [prev |-> <<>>, written |-> {}, num_edits |-> 0,
                 after_clear |-> FALSE, ranges |-> <<>>],
     ed     |-> NoEdit,
     ov     |-> 0,
     call_pos |-> 0,
     declared |-> 0,
     sel    |-> 0,
     digits |-> <<>>,
     used   |-> <<>>]

Init ==
    /\ input \in Inputs
    /\ pos = 0
    /\ pc = "main"
    /\ page = <<>>
    /\ line = <<>>
    /\ line_offset = 0
    /\ in_raster = FALSE
    /\ number = 0
    /\ format = 0
    /\ ch = 0
    /\ lines_left = 0
    /\ edits_left = 0
    /\ page_num = 1
    /\ pages_out = <<>>
    /\ warnings = <<>>
    /\ err = "none"
    /\ err_arg = 0
    /\ exit_status = -1
    /\ hist = HistInit

\* ------------------------------------------------------------------------
\* main and read_page
\* ------------------------------------------------------------------------

\* read_page without line.clear()
CallReadPageKeepLine ==
    /\ pc = "main"
    /\ \E n \in Indeterminate : number' = n
    /\ in_raster' = FALSE
    /\ format' = 0
    /\ page' = <<>>
    /\ pc' = "wrapper"
    /\ hist' = [hist EXCEPT !.pre = Pre, !.last = "call", !.calls = @ + 1,
                   !.call_pos = pos, !.declared = 0]
    /\ UNCHANGED <<input, pos, line, line_offset, ch, lines_left, edits_left,
                   page_num, pages_out, warnings, err, err_arg, exit_status>>

\* line 266 calling read_page, lines 160-166
CallReadPage ==
    /\ pc = "main"
    /\ \E n \in Indeterminate : number' = n
    /\ in_raster' = FALSE
    /\ format' = 0
    /\ page' = <<>>
    /\ line' = <<>>
    /\ pc' = "wrapper"
    /\ hist' = [hist EXCEPT !.pre = Pre, !.last = "call", !.calls = @ + 1,
                   !.call_pos = pos, !.declared = 0]
    /\ UNCHANGED <<input, pos, line_offset, ch, lines_left, edits_left,
                   page_num, pages_out, warnings, err, err_arg, exit_status>>

Peek == input[pos + 1]

\* line 167: getc finds the end of the file; read_page returns
WrapEOF ==
    /\ pc = "wrapper"
    /\ pos >= Len(input)
    /\ ch' = -1
    /\ pc' = "ret"
    /\ hist' = [hist EXCEPT !.pre = Pre, !.last = "eof", !.eof_at = "wrapper",
                   !.eofs = @ + 1,
                   !.at_eof = IF hist.eofs = 0
                              THEN [page |-> page, pages |-> pages_out]
                              ELSE @]
    /\ UNCHANGED <<input, pos, page, line, line_offset, in_raster, number,
                   format, lines_left, edits_left, page_num, pages_out,
                   warnings, err, err_arg, exit_status>>

\* lines 168-169: form-feed; read_page returns
WrapFormFeed ==
    /\ pc = "wrapper"
    /\ pos < Len(input)
    /\ Peek = FormFeed
    /\ ch' = Peek
    /\ pos' = pos + 1
    /\ pc' = "ret"
    /\ hist' = [hist EXCEPT !.pre = Pre, !.last = "formfeed"]
    /\ UNCHANGED <<input, page, line, line_offset, in_raster, number, format,
                   lines_left, edits_left, page_num, pages_out, warnings,
                   err, err_arg, exit_status>>

\* ESC with number = 0 outside the test for * b
WrapEscapeReset ==
    /\ pc = "wrapper"
    /\ pos < Len(input)
    /\ Peek = ESC
    /\ \E r1 \in {Get(Reader(pos + 1, number))} : \E r2 \in {Get(r1)} :
       LET rs == r2.err = "none" /\ r1.byte = Star /\ r2.byte = LowerB
       IN  /\ pos' = r2.pos
           /\ err' = r2.err
           /\ pc' = Thrown(r2, "wrapper")
           /\ in_raster' = IF rs THEN TRUE ELSE in_raster
           /\ number' = 0
           /\ hist' = [hist EXCEPT !.pre = Pre, !.last = "escape",
                          !.eof_at = IF r2.err = "none" THEN @ ELSE "esc",
                          !.digits = IF rs THEN <<>> ELSE @]
    /\ ch' = Peek
    /\ UNCHANGED <<input, page, line, line_offset, format, lines_left,
                   edits_left, page_num, pages_out, warnings, err_arg,
                   exit_status>>

\* lines 170-177: ESC and the two bytes after it
WrapEscape ==
    /\ pc = "wrapper"
    /\ pos < Len(input)
    /\ Peek = ESC
    /\ \E r1 \in {Get(Reader(pos + 1, number))} : \E r2 \in {Get(r1)} :
       LET rs == r2.err = "none" /\ r1.byte = Star /\ r2.byte = LowerB
       IN  /\ pos' = r2.pos
           /\ err' = r2.err
           /\ pc' = Thrown(r2, "wrapper")
           /\ in_raster' = IF rs THEN TRUE ELSE in_raster
           /\ number' = IF rs THEN 0 ELSE number
           /\ hist' = [hist EXCEPT !.pre = Pre, !.last = "escape",
                          !.eof_at = IF r2.err = "none" THEN @ ELSE "esc",
                          !.digits = IF rs THEN <<>> ELSE @]
    /\ ch' = Peek
    /\ UNCHANGED <<input, page, line, line_offset, format, lines_left,
                   edits_left, page_num, pages_out, warnings, err_arg,
                   exit_status>>

\* lines 179-182 (and 206-212): a digit of the value field
WrapDigit ==
    /\ pc = "wrapper"
    /\ pos < Len(input)
    /\ in_raster
    /\ Peek >= Char0 /\ Peek <= Char9
    /\ LET a == AfterLetter(Peek, number * 10 + (Peek - Char0),
                            in_raster)
       IN  number' = a.number /\ in_raster' = a.in_raster
    /\ ch' = Peek
    /\ pos' = pos + 1
    /\ hist' = [hist EXCEPT !.pre = Pre, !.last = "digit",
                   !.digits = Append(@, Peek - Char0)]
    /\ UNCHANGED <<input, pc, page, line, line_offset, format, lines_left,
                   edits_left, page_num, pages_out, warnings, err, err_arg,
                   exit_status>>

\* lines 183-185 and 206-212: m or M selects the format
WrapFormat ==
    /\ pc = "wrapper"
    /\ pos < Len(input)
    /\ in_raster
    /\ Peek \in {LowerM, UpperM}
    /\ format' = number
    /\ LET a == AfterLetter(Peek, number, in_raster)
       IN  number' = a.number /\ in_raster' = a.in_raster
    /\ ch' = Peek
    /\ pos' = pos + 1
    /\ hist' = [hist EXCEPT !.pre = Pre, !.last = "format",
                   !.sel = number, !.used = hist.digits,
                   !.digits = IF IsParamChar(Peek) THEN <<>> ELSE @]
    /\ UNCHANGED <<input, pc, page, line, line_offset, lines_left,
                   edits_left, page_num, pages_out, warnings, err, err_arg,
                   exit_status>>

\* lines 186-198: w or W; read_block is entered or the format is refused
WrapData ==
    /\ pc = "wrapper"
    /\ pos < Len(input)
    /\ in_raster
    /\ Peek \in {LowerW, UpperW}
    /\ ch' = Peek
    /\ pos' = pos + 1
    /\ IF Supported(format)
       THEN /\ pc' = "block"
            /\ UNCHANGED <<err, err_arg>>
       ELSE /\ pc' = "catch"
            /\ err' = "unsupported_compression"
            /\ err_arg' = format
    /\ hist' = [hist EXCEPT !.pre = Pre, !.last = "data",
                   !.used = hist.digits,
                   !.blk = [start |-> pos + 1, n |-> number, line |-> line,
                            line_offset |-> line_offset, page |-> page]]
    /\ UNCHANGED <<input, page, line, line_offset, in_raster, number, format,
                   lines_left, edits_left, page_num, pages_out, warnings,
                   exit_status>>

\* lines 206-212 alone: any other byte in raster mode
WrapLetter ==
    /\ pc = "wrapper"
    /\ pos < Len(input)
    /\ in_raster
    /\ Peek \notin {FormFeed, ESC, LowerM, UpperM, LowerW, UpperW}
    /\ ~(Peek >= Char0 /\ Peek <= Char9)
    /\ LET a == AfterLetter(Peek, number, in_raster)
       IN  number' = a.number /\ in_raster' = a.in_raster
    /\ ch' = Peek
    /\ pos' = pos + 1
    /\ hist' = [hist EXCEPT !.pre = Pre, !.last = "letter",
                   !.digits = IF IsParamChar(Peek) THEN <<>> ELSE @]
    /\ UNCHANGED <<input, pc, page, line, line_offset, format, lines_left,
                   edits_left, page_num, pages_out, warnings, err, err_arg,
                   exit_status>>

\* a skipped byte put back into the stream
WrapSkipStay ==
    /\ pc = "wrapper"
    /\ pos < Len(input)
    /\ ~in_raster
    /\ Peek \notin {FormFeed, ESC}
    /\ ch' = Peek
    /\ hist' = [hist EXCEPT !.pre = Pre, !.last = "skip"]
    /\ UNCHANGED <<input, pos, pc, page, line, line_offset, in_raster, number,
                   format, lines_left, edits_left, page_num, pages_out,
                   warnings, err, err_arg, exit_status>>

\* line 178 false: outside raster mode every other byte is skipped
WrapSkip ==
    /\ pc = "wrapper"
    /\ pos < Len(input)
    /\ ~in_raster
    /\ Peek \notin {FormFeed, ESC}
    /\ ch' = Peek
    /\ pos' = pos + 1
    /\ hist' = [hist EXCEPT !.pre = Pre, !.last = "skip"]
    /\ UNCHANGED <<input, pc, page, line, line_offset, in_raster, number,
                   format, lines_left, edits_left, page_num, pages_out,
                   warnings, err, err_arg, exit_status>>

\* ------------------------------------------------------------------------
\* read_block, read_line, read_edit
\* ------------------------------------------------------------------------

\* the decoder state held in the variables
DState ==
    [r |-> Reader(pos, number), line |-> line, line_offset |-> line_offset,
     page |-> page, lines_left |-> lines_left, edits_left |-> edits_left,
     pc |-> pc]

Store(d) ==
    /\ pos' = d.r.pos
    /\ number' = d.r.number
    /\ err' = d.r.err
    /\ line' = d.line
    /\ line_offset' = d.line_offset
    /\ page' = d.page
    /\ lines_left' = d.lines_left
    /\ edits_left' = d.edits_left
    /\ pc' = d.pc

EofSite(r, site, old) == IF r.err = "unexpected_eof" THEN site ELSE old

\* read_block reads the line count
ReadBlockAct ==
    /\ pc = "block"
    /\ \E d \in {BlockHeader(DState)} :
           /\ Store(d)
           /\ hist' = [hist EXCEPT !.pre = Pre, !.last = "block_header",
                          !.eof_at = EofSite(d.r, "block", @),
                          !.declared = IF d.r.err = "none"
                                       THEN @ + input[pos + 1] * 256
                                              + input[pos + 2]
                                       ELSE @]
    /\ UNCHANGED <<input, in_raster, format, ch, page_num, pages_out,
                   warnings, err_arg, exit_status>>

\* read_line reads num_edits
ReadLineAct ==
    /\ pc = "line"
    /\ lines_left > 0
    /\ \E d \in {LineHeader(DState)} :
           /\ Store(d)
           /\ hist' = [hist EXCEPT !.pre = Pre, !.last = "line_header",
                          !.eof_at = EofSite(d.r, "block", @),
                          !.ln = [prev |-> line, written |-> {},
                                  num_edits |-> IF d.r.err = "none"
                                                THEN d.r.byte ELSE -1,
                                  after_clear |->
                                      /\ page # <<>>
                                      /\ hist.ln.num_edits = ClearLine,
                                  ranges |-> <<>>],
                          !.ed = NoEdit]
    /\ UNCHANGED <<input, in_raster, format, ch, page_num, pages_out,
                   warnings, err_arg, exit_status>>

\* read_line calls read_edit
ReadEditAct ==
    /\ pc = "edit"
    /\ edits_left > 0
    /\ \E e \in {ReadEdit(Reader(pos, number), line, line_offset)} :
       \E d \in {EditStep(DState)} :
       LET range == IF e.r.err = "none"
                    THEN (line_offset + e.offset)
                           .. (line_offset + e.offset + e.count - 1)
                    ELSE {}
       IN  /\ Store(d)
           /\ hist' = [hist EXCEPT !.pre = Pre, !.last = "edit",
                          !.eof_at = EofSite(d.r, "block", @),
                          !.ln.written = @ \cup range,
                          !.ln.ranges =
                              IF e.r.err = "none"
                              THEN Append(@, <<line_offset + e.offset,
                                               line_offset + e.offset
                                                 + e.count - 1>>)
                              ELSE @,
                          !.ed = [kind |-> e.kind, cursor |-> line_offset,
                                  offset |-> e.offset, count |-> e.count,
                                  before |-> line, from |-> pos,
                                  decoded |-> e.decoded]]
    /\ UNCHANGED <<input, in_raster, format, ch, page_num, pages_out,
                   warnings, err_arg, exit_status>>

\* read_line appends the line; read_block steps to the next one
EndLineAct ==
    /\ pc = "edit"
    /\ edits_left = 0
    /\ \E d \in {LineEnd(DState)} : Store(d)
    /\ hist' = [hist EXCEPT !.pre = Pre, !.last = "line_end"]
    /\ UNCHANGED <<input, in_raster, format, ch, page_num, pages_out,
                   warnings, err_arg, exit_status>>

\* read_block returns; lines 199-212: warning, drain, letter class of w/W
FinishBlock ==
    /\ pc = "line"
    /\ lines_left = 0
    /\ \E r \in {DrainLoop(Reader(pos, number))} :
       LET a == AfterLetter(ch, r.number, in_raster)
       IN  /\ pos' = r.pos
           /\ err' = r.err
           /\ warnings' = IF number > 0 THEN Append(warnings, number)
                          ELSE warnings
           /\ number' = IF r.err = "none" THEN a.number ELSE r.number
           /\ in_raster' = IF r.err = "none" THEN a.in_raster ELSE in_raster
           /\ pc' = Thrown(r, "wrapper")
           /\ hist' = [hist EXCEPT !.pre = Pre, !.last = "block_end",
                          !.eof_at = EofSite(r, "drain", @),
                          !.digits = IF r.err = "none" /\ IsParamChar(ch)
                                     THEN <<>> ELSE @]
    /\ UNCHANGED <<input, page, line, line_offset, format, ch, lines_left,
                   edits_left, page_num, pages_out, err_arg, exit_status>>

\* ------------------------------------------------------------------------
\* main: lines 266-283
\* ------------------------------------------------------------------------

\* read_page returned true: the page is written, page_num advances
EmitPage ==
    /\ pc = "ret"
    /\ page # <<>>
    /\ pages_out' = Append(pages_out, WritePnm(page))
    /\ page_num' = page_num + 1
    /\ pc' = "main"
    /\ hist' = [hist EXCEPT !.pre = Pre, !.last = "emit"]
    /\ UNCHANGED <<input, pos, page, line, line_offset, in_raster, number,
                   format, ch, lines_left, edits_left, warnings, err,
                   err_arg, exit_status>>

\* read_page returned false: the loop ends, main returns 0
Finish ==
    /\ pc = "ret"
    /\ page = <<>>
    /\ exit_status' = 0
    /\ pc' = "done"
    /\ hist' = [hist EXCEPT !.pre = Pre, !.last = "finish"]
    /\ UNCHANGED <<input, pos, page, line, line_offset, in_raster, number,
                   format, ch, lines_left, edits_left, page_num, pages_out,
                   warnings, err, err_arg>>

\* a catch clause that writes out the lines decoded so far
CatchFlush ==
    /\ pc = "catch"
    /\ exit_status' = 1
    /\ pc' = "done"
    /\ pages_out' = IF page # <<>> THEN Append(pages_out, WritePnm(page))
                    ELSE pages_out
    /\ hist' = [hist EXCEPT !.pre = Pre, !.last = "catch"]
    /\ UNCHANGED <<input, pos, page, line, line_offset, in_raster, number,
                   format, ch, lines_left, edits_left, page_num, warnings,
                   err, err_arg>>

\* the catch clause: main returns 1
Catch ==
    /\ pc = "catch"
    /\ exit_status' = 1
    /\ pc' = "done"
    /\ hist' = [hist EXCEPT !.pre = Pre, !.last = "catch"]
    /\ UNCHANGED <<input, pos, page, line, line_offset, in_raster, number,
                   format, ch, lines_left, edits_left, page_num, pages_out,
                   warnings, err, err_arg>>

Next ==
    \/ CallReadPage
    \/ WrapEOF
    \/ WrapFormFeed
    \/ WrapEscape
    \/ WrapDigit
    \/ WrapFormat
    \/ WrapData
    \/ WrapLetter
    \/ WrapSkip
    \/ ReadBlockAct
    \/ ReadLineAct
    \/ ReadEditAct
    \/ EndLineAct
    \/ FinishBlock
    \/ EmitPage
    \/ Finish
    \/ Catch

Spec == Init /\ [][Next]_vars

\* the program is one sequential thread: while a statement can run, one runs
FairSpec == Spec /\ WF_vars(Next)

\* ------------------------------------------------------------------------
\* read_overflow on its own: a run of 0xFF bytes, a byte, and what follows,
\* read through a block counter of any size
\* ------------------------------------------------------------------------

OvInputs ==
    {Rep(255, k) \o <<v>> \o tail :
        k \in 0..MaxFF, v \in {0, 1, 7, 200, 254, 255},
        tail \in {<<>>, <<255>>, <<3, 255>>}}

OvInit ==
    /\ input \in OvInputs
    /\ number \in 0..(MaxFF + 3)
    /\ pos = 0
    /\ pc = "overflow"
    /\ page = <<>>
    /\ line = <<>>
    /\ line_offset = 0
    /\ in_raster = TRUE
    /\ format = FORMAT_1030
    /\ ch = LowerW
    /\ lines_left = 0
    /\ edits_left = 0
    /\ page_num = 1
    /\ pages_out = <<>>
    /\ warnings = <<>>
    /\ err = "none"
    /\ err_arg = 0
    /\ exit_status = -1
    /\ hist = HistInit

\* read_overflow(get_next_block_character)
OvCall ==
    /\ pc = "overflow"
    /\ \E o \in {ReadOverflow(Reader(pos, number))} :
          /\ pos' = o.r.pos
          /\ number' = o.r.number
          /\ err' = o.r.err
          /\ hist' = [hist EXCEPT !.pre = Pre, !.last = "overflow",
                         !.ov = o.sum]
    /\ pc' = "overflowed"
    /\ UNCHANGED <<input, page, line, line_offset, in_raster, format, ch,
                   lines_left, edits_left, page_num, pages_out, warnings,
                   err_arg, exit_status>>

OvNext == OvCall

SpecOverflow == OvInit /\ [][OvNext]_vars

\* ------------------------------------------------------------------------
\* Claims
\* ------------------------------------------------------------------------

\* C1: when the driver ends without error it has decoded the whole stream:
\* a form-feed met with an empty page emits nothing and decoding goes on
\* with the bytes after it, so every segment holding a scan line is emitted.
C1_DecodesEverySegment ==
    exit_status = 0 => pos = Len(input)

\* C2: end of file is an error exactly at a mandatory read (the two bytes
\* after ESC, a byte the block decoder asks for with its counter positive,
\* a drained byte).  Met by the wrapper loop it is normal: the page is
\* written iff it holds a line, the call after it reports no page, and
\* main returns 0.
C2_EofOnlyFailsMandatoryReads ==
    /\ (pc = "catch" /\ err = "unexpected_eof") =>
          /\ pos = Len(input)
          /\ \/ hist.last = "escape" /\ Len(input) < hist.pre.pos + 3
             \/ /\ hist.last \in {"block_header", "line_header", "edit"}
                /\ hist.pre.number > 0
                /\ number >= 0
                /\ pos - hist.pre.pos = hist.pre.number - number - 1
             \/ /\ hist.last = "block_end"
                /\ hist.pre.number > Len(input) - hist.pre.pos
    /\ (hist.last = "escape" /\ Len(input) < hist.pre.pos + 3) =>
          err = "unexpected_eof"
    /\ (/\ hist.last \in {"block_header", "line_header", "edit"}
        /\ hist.pre.number > 0
        /\ hist.pre.pos = Len(input)) => err = "unexpected_eof"
    /\ (hist.last = "block_end"
        /\ hist.pre.number > Len(input) - hist.pre.pos) =>
          err = "unexpected_eof"
    /\ hist.eofs >= 1 =>
          /\ err = "none"
          /\ pos = Len(input)
          /\ hist.eofs <= 2
          /\ pc \in {"ret", "main", "wrapper", "done"}
          /\ hist.eofs = 2 => page = <<>> /\ hist.at_eof.page # <<>>
          /\ pc \in {"main", "wrapper", "done"} =>
                pages_out = IF hist.at_eof.page # <<>>
                            THEN Append(hist.at_eof.pages,
                                        WritePnm(hist.at_eof.page))
                            ELSE hist.at_eof.pages
          /\ pc = "wrapper" => page = <<>>
          /\ pc = "done" => exit_status = 0

\* C2 witness: the file ended in the wrapper loop with lines in the page;
\* the page was written, the next call found nothing, main returned 0
C2_Witness ==
    /\ pc = "done"
    /\ exit_status = 0
    /\ hist.eofs = 2
    /\ hist.at_eof.page # <<>>
    /\ Len(pages_out) = Len(hist.at_eof.pages) + 1

InDecoder == pc \in {"block", "line", "edit"}

DecoderSteps == {"block_header", "line_header", "edit", "line_end"}

BlockEndAt == hist.blk.start + hist.blk.n

\* C3: a w/W with count N and format 1030 that completes without error has
\* consumed exactly the N bytes after the w/W byte (those the decoder read
\* plus those drained) and the wrapper loop resumes at the byte after them;
\* when the decoder left bytes unread they are dropped with one warning that
\* names their number, and no error is raised.
C3_BlockConsumesDeclaredCount ==
    /\ (InDecoder /\ err = "none") =>
          /\ hist.pre.format = FORMAT_1030 \/ hist.last # "data"
          /\ pos + number = BlockEndAt
    /\ (hist.last = "block_end" /\ err = "none") =>
          /\ pos = BlockEndAt
          /\ pos = hist.pre.pos + hist.pre.number
          /\ pc = "wrapper"
          /\ exit_status = -1
          /\ page = hist.pre.page
          /\ IF hist.pre.number > 0
             THEN /\ Len(warnings) = hist.pre.warnings + 1
                  /\ warnings[Len(warnings)] = hist.pre.number
             ELSE Len(warnings) = hist.pre.warnings

\* C3 witness: a block whose decoder stopped short of the declared count;
\* the rest was drained and the wrapper loop goes on
C3_Witness ==
    /\ hist.last = "block_end"
    /\ err = "none"
    /\ hist.pre.number > 0
    /\ hist.pre.pos > hist.blk.start
    /\ pos = BlockEndAt
    /\ warnings # <<>>

\* C4: the block decoder never reads beyond the N bytes declared: a read
\* asked for with the counter at 0 raises read_past_block_end and consumes
\* nothing; and a block that decodes with exactly its N bytes fails with
\* read_past_block_end when the same bytes are declared as N - 1.
C4_DecoderStaysInWindow ==
    /\ InDecoder => pos <= BlockEndAt /\ number >= 0
    /\ hist.last \in DecoderSteps => pos <= BlockEndAt
    /\ err = "read_past_block_end" =>
          /\ number = 0
          /\ pos = BlockEndAt
          /\ pc \in {"catch", "done"}
    /\ (hist.last \in {"block_header", "line_header", "edit"}
        /\ hist.pre.number = 0) =>
          /\ err = "read_past_block_end"
          /\ pos = hist.pre.pos
    /\ (hist.last = "block_end" /\ hist.pre.number = 0) =>
          /\ hist.blk.n >= 2
          /\ RunBlock([r |-> Reader(hist.blk.start, hist.blk.n - 1),
                       line |-> hist.blk.line,
                       line_offset |-> hist.blk.line_offset,
                       page |-> hist.blk.page,
                       lines_left |-> 0, edits_left |-> 0,
                       pc |-> "block"]).r.err = "read_past_block_end"

\* C4 witness: the decoder asked for a byte with the counter at 0 while the
\* stream still held bytes; it stopped at the end of the window
C4_Witness ==
    /\ pc = "catch"
    /\ err = "read_past_block_end"
    /\ hist.last = "edit"
    /\ pos = BlockEndAt
    /\ pos < Len(input)

\* C5: the previous-line buffer and every line of the page are at most
\* MAX_LINE_SIZE bytes long; an edit whose cursor + offset + count (the
\* fields as decoded) exceeds MAX_LINE_SIZE fails, leaves the buffer as it
\* was and appends no line, and the failure is line_overflow once the edit
\* has reached its bounds check (a repeat edit reads its data byte first).
C5_LinesBounded ==
    /\ Len(line) <= MAX_LINE_SIZE
    /\ \A i \in 1..Len(page) : Len(page[i]) <= MAX_LINE_SIZE
    /\ (/\ hist.last = "edit"
        /\ hist.ed.decoded # "no"
        /\ hist.ed.cursor + hist.ed.offset + hist.ed.count > MAX_LINE_SIZE) =>
          /\ err # "none"
          /\ hist.ed.decoded = "full" => err = "line_overflow"
          /\ pc = "catch"
          /\ line = hist.ed.before
          /\ line_offset = hist.ed.cursor
          /\ page = hist.pre.page
    /\ err = "line_overflow" =>
          /\ hist.ed.cursor + hist.ed.offset + hist.ed.count > MAX_LINE_SIZE
          /\ line = hist.ed.before

\* C5 witness: an edit reaching past MAX_LINE_SIZE met a buffer that held
\* bytes and a page that held a line; neither changed
C5_Witness ==
    /\ hist.last = "edit"
    /\ err = "line_overflow"
    /\ hist.ed.before # <<>>
    /\ line = hist.ed.before
    /\ page # <<>>

\* C6: when a line with num_edits other than 255 has been decoded, every
\* position outside the ranges its edits wrote holds what the previous line
\* held there, or zero at or beyond the previous line's length; with
\* num_edits = 0 the line is the previous line.
C6_Carryover ==
    hist.last = "line_end" =>
       /\ hist.ln.num_edits # ClearLine
       /\ page = Append(hist.pre.page, line)
       /\ Len(line) >= Len(hist.ln.prev)
       /\ \A i \in 1..Len(line) :
             (i - 1) \notin hist.ln.written =>
                line[i] = IF i <= Len(hist.ln.prev) THEN hist.ln.prev[i] ELSE 0
       /\ hist.ln.num_edits = 0 => line = hist.ln.prev

\* C6 witness: a line keeps a nonzero byte of the previous line at a
\* position no edit wrote and holds a zero at an unwritten position beyond
\* the previous line's end
C6_Witness ==
    /\ hist.last = "line_end"
    /\ hist.ln.written # {}
    /\ \E i \in 1..Len(line) :
          /\ (i - 1) \notin hist.ln.written
          /\ i <= Len(hist.ln.prev)
          /\ line[i] # 0
    /\ \E i \in 1..Len(line) :
          /\ (i - 1) \notin hist.ln.written
          /\ i > Len(hist.ln.prev)

\* C7: an edit with decoded (offset, count) at cursor c writes exactly the
\* positions c+offset .. c+offset+count-1 and leaves the cursor at
\* c+offset+count; a repeat edit (top bit of cmd set) writes count copies of
\* the byte read after the fields, a substitute edit the next count bytes of
\* the block in order; the buffer is then max(old length, c+offset+count)
\* bytes long.
C7_EditEffect ==
    (hist.last = "edit" /\ err = "none") =>
       LET c == hist.ed.cursor
           o == hist.ed.offset
           n == hist.ed.count
           b == hist.ed.before
       IN  /\ hist.ed.kind =
                 (IF input[hist.ed.from + 1] >= 128 THEN "repeat"
                  ELSE "substitute")
           /\ line_offset = c + o + n
           /\ Len(line) = Max(Len(b), c + o + n)
           /\ \A i \in 1..Len(line) :
                 line[i] =
                    IF c + o < i /\ i <= c + o + n
                    THEN IF hist.ed.kind = "repeat" THEN input[pos]
                         ELSE input[pos - n + (i - (c + o))]
                    ELSE IF i <= Len(b) THEN b[i] ELSE 0

\* C7 witness: a substitute edit of several bytes, then a repeat edit at a
\* cursor and an offset above 0 (this state: the repeat edit just applied
\* to the buffer the substitute edit left)
C7_Witness ==
    /\ hist.last = "edit"
    /\ err = "none"
    /\ hist.ed.kind = "repeat"
    /\ hist.ed.cursor >= 2
    /\ hist.ed.offset > 0
    /\ hist.ed.before # <<>>
    /\ hist.ed.before[1] # hist.ed.before[2]

\* C8: a line whose num_edits byte is 255 takes no further byte of the
\* block, appends an empty line to the page and leaves the previous-line
\* buffer empty, so the line after it is decoded against an empty buffer.
C8_ClearLine ==
    /\ (hist.last = "line_header" /\ hist.ln.num_edits = ClearLine) =>
          /\ err = "none"
          /\ pos = hist.pre.pos + 1
          /\ number = hist.pre.number - 1
          /\ page = Append(hist.pre.page, <<>>)
          /\ line = <<>>
          /\ pc = "line"
          /\ lines_left = hist.pre.lines_left - 1
    /\ (hist.ln.after_clear /\ hist.last \in {"line_header", "edit", "line_end"}) =>
          hist.ln.prev = <<>>
    /\ (hist.ln.after_clear /\ hist.last = "line_end") =>
          \A i \in 1..Len(line) : (i - 1) \notin hist.ln.written => line[i] = 0

\* C8 witness: a page of a nonempty line, an empty line for the mark, and a
\* line decoded after it that carries nothing of the first
C8_Witness ==
    /\ hist.last = "line_end"
    /\ hist.ln.after_clear
    /\ Len(page) = 3
    /\ page[1] = <<165>>
    /\ page[2] = <<>>
    /\ page[3] = <<0, 0, 170, 170>>

\* C9: w/W in raster mode with a format other than 1030 raises
\* unsupported_compression carrying that format, whatever the count
\* (0 included); no byte after the w/W is consumed and the page gets no line.
C9_UnsupportedFormat ==
    /\ (hist.last = "data" /\ hist.pre.format # FORMAT_1030) =>
          /\ pc = "catch"
          /\ err = "unsupported_compression"
          /\ err_arg = hist.pre.format
          /\ pos = hist.pre.pos + 1
          /\ page = hist.pre.page
          /\ line = hist.pre.line
    /\ err = "unsupported_compression" =>
          /\ err_arg # FORMAT_1030
          /\ pos = hist.blk.start
          /\ page = hist.blk.page
          /\ pc = "done" => exit_status = 1

\* C9 witness: the refusal at a w/W whose count is 0, bytes still unread
C9_Witness ==
    /\ hist.last = "data"
    /\ pc = "catch"
    /\ err = "unsupported_compression"
    /\ hist.blk.n = 0
    /\ pos < Len(input)

\* C10 as stated: ESC * b 0 W 00 00 FF is processed without any error, no
\* page is emitted and the program ends normally.
C10_Scenario2NoError ==
    (input = Scenario2 /\ pc = "done") =>
       /\ err = "none"
       /\ exit_status = 0
       /\ pages_out = <<>>

\* C10 amended: ESC * b 0 W 00 00 FF, where no format was selected, is
\* refused at the W with unsupported_compression carrying format 0: the
\* three bytes after the W are never read, no page is emitted and the
\* program ends with status 1.
C10_Scenario2Refused ==
    (input = Scenario2 /\ pc = "done") =>
       /\ err = "unsupported_compression"
       /\ err_arg = 0
       /\ exit_status = 1
       /\ pos = 5
       /\ page = <<>>
       /\ pages_out = <<>>

\* C10 witness: the program has ended on that input
C10_Witness ==
    /\ input = Scenario2
    /\ pc = "done"
    /\ hist.last = "catch"

Errors ==
    {"unexpected_eof", "read_past_block_end", "line_overflow",
     "unsupported_compression"}

\* C11: once an error is raised no further page is emitted: the pages
\* written stay as they were, the lines of the page under way are never
\* written, nothing but the catch clause runs, and the exit status is 1.
C11_NoPageAfterError ==
    /\ [](err \in Errors \cup {"none"})
    /\ [](err # "none" =>
            /\ pc \in {"catch", "done"}
            /\ Len(pages_out) = hist.pre.pages
            /\ pc = "done" => exit_status = 1 /\ hist.last = "catch")
    /\ []((pc = "done" /\ exit_status = 1) => err # "none")
    /\ [][err' # "none" =>
            /\ pages_out' = pages_out
            /\ page_num' = page_num
            /\ err = "none" \/ (err' = err /\ pos' = pos /\ page' = page)]_vars

\* C11 witness: a first page was written, the second page held a line when
\* the error came; main returned 1 with one page written
C11_Witness ==
    /\ pc = "done"
    /\ exit_status = 1
    /\ err = "line_overflow"
    /\ page # <<>>
    /\ Len(pages_out) = 1
    /\ page_num = 2

\* the number of consecutive 0xFF bytes of the input from position p on
RunOfFF(p) ==
    CHOOSE k \in 0..(Len(input) - p) :
       /\ \A j \in 1..k : input[p + j] = 255
       /\ p + k = Len(input) \/ input[p + k + 1] # 255

\* C12: read_overflow consumes k + 1 bytes, k the number of leading 0xFF
\* bytes, stops at the first byte v other than 0xFF and returns 255 * k + v;
\* it fails instead when the block counter or the file ends before v.
C12_OverflowSum ==
    pc = "overflowed" =>
       LET k == RunOfFF(0)
       IN  IF k + 1 <= hist.pre.number /\ k + 1 <= Len(input)
           THEN /\ err = "none"
                /\ pos = k + 1
                /\ number = hist.pre.number - (k + 1)
                /\ input[k + 1] # 255
                /\ hist.ov = 255 * k + input[k + 1]
           ELSE /\ err = IF hist.pre.number <= Len(input) /\ hist.pre.number <= k
                         THEN "read_past_block_end" ELSE "unexpected_eof"
                /\ pos <= k

\* C12 witness: the bytes 255, 255, 7 give 517, and the byte after them is
\* left unread
C12_Witness ==
    /\ pc = "overflowed"
    /\ err = "none"
    /\ Len(input) > 3
    /\ input[1] = 255 /\ input[2] = 255 /\ input[3] = 7
    /\ hist.ov = 517
    /\ pos = 3
    /\ number > 0

\* the line count at the head of the block under way
DeclaredLines ==
    input[hist.blk.start + 1] * 256 + input[hist.blk.start + 2]

\* C13: a block that decodes without error appends exactly L lines to the
\* page, L = first byte * 256 + second byte of the block, after the lines
\* the page held, and reads no line beyond the L-th though bytes remain; a
\* page is as high as the sum of the line counts of the blocks of its call.
C13_LineCountAuthoritative ==
    /\ (InDecoder /\ hist.last # "data" /\ err = "none") =>
          /\ Len(page) + lines_left = Len(hist.blk.page) + DeclaredLines
          /\ SubSeq(page, 1, Len(hist.blk.page)) = hist.blk.page
    /\ hist.last = "block_end" =>
          /\ Len(page) = Len(hist.blk.page) + DeclaredLines
          /\ SubSeq(page, 1, Len(hist.blk.page)) = hist.blk.page
          /\ page = hist.pre.page
    /\ (pc \in {"wrapper", "ret"} /\ err = "none") =>
          Len(page) = hist.declared
    /\ hist.last = "emit" =>
          /\ pages_out[Len(pages_out)].height = hist.declared
          /\ pages_out[Len(pages_out)].height = Len(pages_out[Len(pages_out)].rows)
          /\ hist.declared > 0

\* C13 witness: a second block added its lines after those of the first,
\* bytes of it remained unread after its last line, and the page was written
C13_Witness ==
    /\ hist.last = "emit"
    /\ hist.declared = 2
    /\ hist.blk.page # <<>>
    /\ Len(page) = Len(hist.blk.page) + DeclaredLines
    /\ warnings # <<>>

\* C14: while a line is decoded the write cursor starts at 0 and never
\* decreases from one edit to the next; after each edit it is at most the
\* length of the buffer; the ranges the edits of a line write are disjoint
\* and lie strictly left to right.
C14_CursorMonotone ==
    /\ (/\ hist.last = "line_header"
        /\ err = "none"
        /\ hist.ln.num_edits # ClearLine) => line_offset = 0
    /\ (hist.last = "edit" /\ err = "none") =>
          /\ hist.ed.cursor = hist.pre.line_offset
          /\ line_offset >= hist.ed.cursor
          /\ line_offset <= Len(line)
    /\ pc = "edit" =>
          LET rs == hist.ln.ranges
          IN  /\ \A i \in 1..Len(rs) :
                    /\ rs[i][1] <= rs[i][2]
                    /\ rs[i][2] < Len(line)
                    /\ IF i = 1 THEN rs[i][1] >= 0
                       ELSE rs[i - 1][2] < rs[i][1]
              /\ line_offset = IF rs = <<>> THEN 0 ELSE rs[Len(rs)][2] + 1

\* C14 witness: the second of two edits wrote to the right of the first,
\* a gap between them, in a line that follows another line of the page
C14_Witness ==
    /\ pc = "edit"
    /\ page # <<>>
    /\ hist.pre.line_offset > 0
    /\ Len(hist.ln.ranges) = 2
    /\ hist.ln.ranges[2][1] > hist.ln.ranges[1][2] + 1

\* C15: the format a w/W tests against 1030 is the value set by the most
\* recent m/M handled in raster mode anywhere earlier in the stream, or 0 if
\* there was none: leaving raster mode, a new ESC * b and a form-feed leave
\* the selected format as it is.
C15_FormatPersistsAcrossPages ==
    hist.last = "data" => hist.pre.format = hist.sel

RECURSIVE DigitsValue(_)
\* the decimal value of a sequence of digits
DigitsValue(ds) ==
    IF ds = <<>> THEN 0
    ELSE 10 * DigitsValue(SubSeq(ds, 1, Len(ds) - 1)) + ds[Len(ds)]

\* C16: in raster mode the value an m/M or w/W uses is the decimal value of
\* the digits handled since the latest ESC * b or parameter character; the
\* action uses it first and number is set to 0 after it, so one ESC * b can
\* carry several parameters (1030m, then <N>w).
C16_ValueField ==
    /\ (pc = "wrapper" /\ in_raster /\ err = "none") =>
          number = DigitsValue(hist.digits)
    /\ hist.last = "format" =>
          /\ hist.pre.number = DigitsValue(hist.used)
          /\ format = DigitsValue(hist.used)
          /\ number = IF IsParamChar(ch) THEN 0 ELSE DigitsValue(hist.used)
    /\ hist.last = "data" =>
          /\ hist.blk.n = DigitsValue(hist.used)
          /\ number = hist.blk.n
    /\ (hist.last = "block_end" /\ err = "none" /\ in_raster) =>
          /\ IsParamChar(ch)
          /\ number = 0

\* C16 witness: ESC * b 1030m 5w: the w right after the m of the same
\* introducer enters a block of 5 bytes with format 1030
C16_Witness ==
    /\ hist.last = "data"
    /\ pc = "block"
    /\ hist.pre.pos = 9
    /\ input[9] = Char0 + 5
    /\ input[8] = LowerM
    /\ hist.used = <<5>>
    /\ number = 5
    /\ format = FORMAT_1030

\* C17: an ESC read by the wrapper loop takes exactly the two bytes after
\* it, whatever they are, so neither is handled as a form-feed, an ESC, a
\* digit or a letter; unless they are * and b, in_raster, number, format,
\* the page and the previous-line buffer stay as they were.
C17_EscapeTakesTwoBytes ==
    (hist.last = "escape" /\ err = "none") =>
       /\ pos = hist.pre.pos + 3
       /\ pc = "wrapper"
       /\ format = hist.pre.format
       /\ page = hist.pre.page
       /\ line = hist.pre.line
       /\ Len(pages_out) = hist.pre.pages
       /\ IF input[hist.pre.pos + 2] = Star /\ input[hist.pre.pos + 3] = LowerB
          THEN in_raster /\ number = 0
          ELSE in_raster = hist.pre.in_raster /\ number = hist.pre.number

\* C17 witness: in raster mode with number 10, ESC 3 m: the digit and the
\* m are taken unread, number stays 10 and no format is selected
C17_Witness ==
    /\ hist.last = "escape"
    /\ err = "none"
    /\ hist.pre.in_raster
    /\ hist.pre.number = 10
    /\ input[hist.pre.pos + 2] = Char0 + 3
    /\ input[hist.pre.pos + 3] = LowerM
    /\ number = 10
    /\ format = 0

\* a field of cmd as the formulas give it, read from the input after its
\* first p bytes: small, or small plus 255 for each 0xFF byte of the run
\* plus the byte that ends the run
ExactField(p, small, maxv) ==
    IF small = maxv
    THEN Bind(RunOfFF(p), LAMBDA k :
           [val |-> small + 255 * k + input[p + k + 1], next |-> p + k + 1])
    ELSE [val |-> small, next |-> p]

\* offset and count of the edit whose cmd is byte from + 1 of the input
ExactEdit(from) ==
    Bind(input[from + 1], LAMBDA cmd :
      IF cmd >= 128
      THEN Bind(ExactField(from + 1, (cmd \div 32) % 4, 3), LAMBDA f1 :
             Bind(ExactField(f1.next, cmd % 32, 31), LAMBDA f2 :
               [offset |-> f1.val, count |-> f2.val + 2]))
      ELSE Bind(ExactField(from + 1, (cmd \div 8) % 16, 15), LAMBDA f1 :
             Bind(ExactField(f1.next, cmd % 8, 7), LAMBDA f2 :
               [offset |-> f1.val, count |-> f2.val + 1])))

\* C18: for every edit, however long its extensions, the decoded offset and
\* count are the exact sums of the formulas, without wrap-around, and so
\* every edit whose cursor + offset + count so computed exceeds
\* MAX_LINE_SIZE fails with line_overflow.
C18_FieldsExact ==
    (hist.last = "edit" /\ hist.ed.decoded = "full") =>
       \E x \in {ExactEdit(hist.ed.from)} :
          /\ hist.ed.offset = x.offset
          /\ hist.ed.count = x.count
          /\ hist.ed.cursor + x.offset + x.count > MAX_LINE_SIZE =>
                err = "line_overflow"

\* C19: the first line of every page is decoded against an empty buffer,
\* whatever the page before ended with; within a page the buffer outlives
\* the block, so the first line of a later block is decoded against the
\* last line of the block before; the lines of the page are copies, which
\* the decoding of a later line never changes.
C19_BufferLifecycle ==
    /\ hist.last = "line_header" =>
          hist.ln.prev = IF hist.pre.page = <<>> THEN <<>>
                         ELSE hist.pre.page[Len(hist.pre.page)]
    /\ (pc \in {"wrapper", "block", "line", "ret"} /\ err = "none") =>
          line = IF page = <<>> THEN <<>> ELSE page[Len(page)]
    /\ hist.last \notin {"call", "overflow"} =>
          /\ Len(page) >= Len(hist.pre.page)
          /\ SubSeq(page, 1, Len(hist.pre.page)) = hist.pre.page

\* C19 witness: page 1 ended with a line of 0xFF; the first line of page 2
\* skipped two positions and found zeros there; a second block of page 2
\* copied that line
C19_Witness ==
    /\ hist.last = "emit"
    /\ Len(pages_out) = 2
    /\ pages_out[1].rows = <<(<<255, 255, 255, 255>>)>>
    /\ pages_out[2].rows = <<(<<0, 0, 170, 170>>), (<<0, 0, 170, 170>>)>>
    /\ hist.blk.page = <<(<<0, 0, 170, 170>>)>>

WrapperSteps ==
    {"formfeed", "escape", "digit", "format", "data", "letter", "skip"}

\* C20: on every (finite) input main stops, with status 0 after the last
\* call of read_page or with status 1 after an error; every pass of the
\* wrapper loop and every read of the decoder takes at least one byte or
\* throws, the edit and line loops are bounded by the counts read, the
\* drain takes one byte per pass, and a call of read_page that reports a
\* page has taken at least one byte.
C20_Terminates ==
    /\ <>(pc = "done")
    /\ [](pc = "done" =>
            \/ exit_status = 0 /\ err = "none" /\ hist.last = "finish"
            \/ exit_status = 1 /\ err # "none" /\ hist.last = "catch")
    /\ [](hist.last \in WrapperSteps => pos > hist.pre.pos)
    /\ [](hist.last \in {"block_header", "line_header", "edit"} =>
            pos > hist.pre.pos \/ err # "none")
    /\ [](pc = "edit" =>
            edits_left >= 0 /\ edits_left <= hist.ln.num_edits)
    /\ []((pc = "line" /\ err = "none") =>
            lines_left >= 0 /\ lines_left <= DeclaredLines)
    /\ []((hist.last = "block_end" /\ err = "none") =>
            pos = hist.pre.pos + Max(hist.pre.number, 0))
    /\ []((pc = "ret" /\ page # <<>>) => pos > hist.call_pos)
    /\ [][pos' >= pos /\ pos' <= Len(input)]_vars

\* C20 witness: main has stopped after three calls of read_page, two of
\* which reported a page
C20_Witness ==
    /\ pc = "done"
    /\ exit_status = 0
    /\ hist.calls = 3
    /\ Len(pages_out) = 2
    /\ pos = Len(input)

====
